---- MODULE Spec2Model ----
(***************************************************************************)
(* A model of src/otus_hw_async/crawler.py: the Crawler class that polls   *)
(* the front page of news.ycombinator.com, and for every new submission    *)
(* saves the submission's page and every link of its comment thread.       *)
(*                                                                         *)
(* The program is one asyncio event loop.  A coroutine runs without        *)
(* interruption from one await to the next, so every action below is one   *)
(* such segment of one coroutine: the main coroutine (crawl, iteration,    *)
(* parse_index_page and the get_news generator it drives) or one task of   *)
(* an asyncio.TaskGroup (load_comments with parse_comments_page, or        *)
(* url_to_file).  The site, the network and the interrupt key are the      *)
(* environment: their answers are chosen with \E from small sets.          *)
(* Directory creation and file writes are taken to succeed.                *)
(***************************************************************************)
EXTENDS Integers, Sequences, FiniteSets, TLC

(***************************************************************************)
(* Bounds of the model.                                                    *)
(***************************************************************************)
\* submission identifiers that the site shows are 1..MaxId
MaxId == 2
\* an index page is at most MaxRuns runs of equal rows
MaxRuns == 2
\* a comment page holds at most MaxLinks anchors
MaxLinks == 2
\* crawl's while True loop is followed for MaxCycles iterations
MaxCycles == 2

(***************************************************************************)
(* Constants of Crawler.__init__.                                          *)
(***************************************************************************)
top_url == "http://news.ycombinator.com"
news_limit == 30

(***************************************************************************)
(* Inputs: what the site can answer.                                       *)
(***************************************************************************)
Ids == 1..MaxId

\* An href attribute is held as <<its first four characters, the rest>>,
\* which is what str.startswith("item") looks at.
HrefA == <<"http", "://a.example/">>
HrefItem == <<"item", "?id=1">>
LinkHrefs == {HrefA, HrefItem}
IndexHrefs == {HrefA}

\* A row <tr class="athing" id=...>: whether int(articles["id"]) succeeds,
\* the integer it gives, and the hrefs of the anchors inside the row's
\* span.titleline, in document order (none when the row has no anchor).
Rows ==
  {[ok |-> TRUE, id |-> i, anchors |-> a] :
      i \in Ids, a \in {<<>>} \cup {<<h>> : h \in IndexHrefs}}
  \cup {[ok |-> FALSE, id |-> 0, anchors |-> <<>>]}

\* An index page is a sequence of runs: the row of a run is repeated rep
\* times in a row in the document.
Reps == {1, news_limit}
Runs == [row : Rows, rep : Reps]
SeqsUpTo(S, n) == UNION {[1..m -> S] : m \in 0..n}
IndexPages == SeqsUpTo(Runs, MaxRuns)

\* A comment page: the hrefs of the anchors inside its div.commtext
\* containers, in document order.  The thread of submission 1 holds up to
\* MaxLinks anchors, the threads of the others one anchor fewer, and the
\* first anchor of a thread is HrefA.
CommentPages(news_id) ==
  {p \in SeqsUpTo(LinkHrefs, IF news_id = 1 THEN MaxLinks ELSE MaxLinks - 1) :
     p = <<>> \/ p[1] = HrefA}

\* A Content-Type header value, cut into pieces at its ';' characters (the
\* ';' are kept as pieces of their own).
CtUnknown == <<"application/x-unknown">>
CtPng == <<"image/png", ";", " q=1">>
\* response.headers: a mapping that holds Content-Type or does not
NoHeaders == <<>>
HeaderSets == {NoHeaders, <<CtUnknown>>, <<CtPng>>}
\* The headers a server sends with a 200: the other host sends image/png
\* with a parameter, the site's own pages come without a Content-Type, and
\* an item page that is saved as a comment link also with a type that
\* mimetypes does not know.
HeadersOf(url) ==
  IF url = "http://a.example/" THEN {<<CtPng>>}
  ELSE IF url = top_url \o "/item?id=1" THEN {NoHeaders, <<CtUnknown>>}
  ELSE {NoHeaders}

\* The exceptions session.get / response.read / response.text raise here.
\* The first is named by the except clauses of the source, the second
\* (the server closes the connection) and the third (a URL without a
\* host) are aiohttp.ClientError subclasses that the clauses do not name.
CaughtExceptions ==
  {"ClientConnectorError", "ConnectionTimeoutError", "ClientOSError",
   "ClientPayloadError", "TimeoutError"}
FetchExceptions == {"ClientConnectorError", "ServerDisconnectedError"}
BodyExceptions == {"ClientPayloadError"}

Raise(e) == [kind |-> "raise", exc |-> e, status |-> 0, headers |-> NoHeaders]
Response(s, h) == [kind |-> "response", exc |-> "", status |-> s, headers |-> h]

\* What session.get(url) can give.  A URL without a host ("" is one) is
\* refused by aiohttp before anything is sent.
SessionGet(url) ==
  IF url = "" THEN {Raise("InvalidURL")}
  ELSE {Response(200, h) : h \in HeadersOf(url)}
       \cup {Response(404, NoHeaders)}
       \cup {Raise(e) : e \in FetchExceptions}

(***************************************************************************)
(* Pure functions of the source.                                           *)
(***************************************************************************)
Str(h) == h[1] \o h[2]

\* href.startswith("item") and the rewrite that follows it
AbsoluteHref(h) ==
  IF h[1] = "item" THEN top_url \o "/" \o Str(h) ELSE Str(h)

\* Crawler.find_link: the href of the first anchor of the row's title
\* line, made absolute; "" when the row has no anchor.  (The title it
\* also returns is only logged.)
find_link(articles) ==
  IF articles.anchors = <<>> THEN "" ELSE AbsoluteHref(articles.anchors[1])

\* sha256(url.encode()).hexdigest()[:50] on the URLs of the model
Sha256Hex50(url) ==
  CASE url = "http://a.example/" ->
         "217fbabc0e7aa17115435afd966b734a76c85b9b14136b967b"
    [] url = "http://news.ycombinator.com/item?id=1" ->
         "49f458663de4ab5e62648914c2c4e5a8d053389143e28d4609"
    [] url = "" ->
         "e3b0c44298fc1c149afbf4c8996fb92427ae41e4649b934ca4"

\* mimetypes.guess_extension on the types of the model; "None" is None
None == "None"
GuessExtension(type) ==
  CASE type = "text/html" -> ".html"
    [] type = "image/png" -> ".png"
    [] OTHER -> None

\* content_type.split(";")[0]: the pieces before the first ';', joined
RECURSIVE SplitFirst(_)
SplitFirst(v) ==
  IF v = <<>> \/ Head(v) = ";" THEN "" ELSE Head(v) \o SplitFirst(Tail(v))

\* the pieces of a header value joined again
RECURSIVE JoinAll(_)
JoinAll(v) == IF v = <<>> THEN "" ELSE Head(v) \o JoinAll(Tail(v))

\* get_file_extension_from_response without line 50
get_file_extension_no_split(response) ==
  LET content_type ==
        IF response.headers = NoHeaders THEN <<"text/html">>
        ELSE response.headers[1]
  IN GuessExtension(JoinAll(content_type))

\* Crawler.get_file_extension_from_response
get_file_extension_from_response(response) ==
  LET content_type ==
        IF response.headers = NoHeaders THEN <<"text/html">>
        ELSE response.headers[1]
  IN GuessExtension(SplitFirst(content_type))

\* lines 108-112 of url_to_file: the file name before the extension
BaseName(url, default_name) ==
  IF default_name # "" THEN default_name ELSE Sha256Hex50(url)

(***************************************************************************)
(* The get_news generator.  Its frame is the rows of the page that its     *)
(* loop has not taken yet, news_count, and recent_news.  The generator     *)
(* runs to its next yield, to the end of the page, or to an exception:     *)
(* raise StopIteration inside a generator reaches the caller as            *)
(* RuntimeError (PEP 479); int() of a non-numeric id raises ValueError.    *)
(***************************************************************************)
GenResult(kind, rows, cnt, seen, id, href) ==
  [kind |-> kind, rows |-> rows, news_count |-> cnt, recent_news |-> seen,
   news_id |-> id, news_href |-> href]

\* the rows after the first one
Rest(rows) ==
  IF rows[1].rep > 1 THEN <<[rows[1] EXCEPT !.rep = @ - 1]>> \o Tail(rows)
  ELSE Tail(rows)

\* get_news without the test of line 96
RECURSIVE get_news_no_test(_, _, _)
get_news_no_test(rows, cnt, seen) ==
  IF rows = <<>> THEN GenResult("end", rows, cnt, seen, 0, "")
  ELSE IF cnt + 1 > news_limit
    THEN GenResult("RuntimeError", Rest(rows), cnt + 1, seen, 0, "")
  ELSE IF ~rows[1].row.ok
    THEN GenResult("ValueError", Rest(rows), cnt + 1, seen, 0, "")
  ELSE GenResult("yield", Rest(rows), cnt + 1, seen \cup {rows[1].row.id},
                 rows[1].row.id, find_link(rows[1].row))

\* get_news with line 97 as self.recent_news = {news_id}
RECURSIVE get_news_assign(_, _, _)
get_news_assign(rows, cnt, seen) ==
  IF rows = <<>> THEN GenResult("end", rows, cnt, seen, 0, "")
  ELSE IF cnt + 1 > news_limit
    THEN GenResult("RuntimeError", Rest(rows), cnt + 1, seen, 0, "")
  ELSE IF ~rows[1].row.ok
    THEN GenResult("ValueError", Rest(rows), cnt + 1, seen, 0, "")
  ELSE IF rows[1].row.id \notin seen
    THEN GenResult("yield", Rest(rows), cnt + 1, {rows[1].row.id},
                   rows[1].row.id, find_link(rows[1].row))
  ELSE get_news_assign(Rest(rows), cnt + 1, seen)

RECURSIVE get_news(_, _, _)
get_news(rows, cnt, seen) ==
  IF rows = <<>> THEN GenResult("end", rows, cnt, seen, 0, "")
  ELSE IF cnt + 1 > news_limit
    THEN GenResult("RuntimeError", Rest(rows), cnt + 1, seen, 0, "")
  ELSE IF ~rows[1].row.ok
    THEN GenResult("ValueError", Rest(rows), cnt + 1, seen, 0, "")
  ELSE IF rows[1].row.id \notin seen
    THEN GenResult("yield", Rest(rows), cnt + 1, seen \cup {rows[1].row.id},
                   rows[1].row.id, find_link(rows[1].row))
  ELSE get_news(Rest(rows), cnt + 1, seen)

(***************************************************************************)
(* State.                                                                  *)
(***************************************************************************)
VARIABLES
  pc,           \* the await the main coroutine is suspended at, or its exit
  iteration,    \* crawl's iteration counter
  index_result, \* what session.get(top_url) gave in this iteration
  recent_news,  \* self.recent_news
  cycle_seen,   \* recent_news as it was when this iteration began
  html,         \* get_news frame: the rows of the page not yet taken
  news_count,   \* get_news frame: news_count
  cur,          \* the submission get_news yielded last
  dirs,         \* the directories under current_directory
  files,        \* the files in them: <<directory, name>> -> content
  mkdir_calls,  \* per identifier, the aiofiles.os.mkdir calls made
  launches,     \* per identifier, the times its two tasks were created
  subs,         \* the tasks of parse_index_page's TaskGroup, by news_id
  tg_errors,    \* that TaskGroup has recorded an exception
  interrupted   \* the interrupt key cancelled the main task

vars ==
  <<pc, iteration, index_result, recent_news, cycle_seen, html,
    news_count, cur, dirs, files, mkdir_calls, launches, subs, tg_errors,
    interrupted>>

Result(status, exc) == [status |-> status, exc |-> exc]
Pending == Result(0, "pending")
NoCur == [news_id |-> 0, news_href |-> ""]
NoPath == <<0, "">>
NoFiles == [p \in {} |-> [bytes |-> "empty", writes |-> 0]]
NoSubs == [i \in {} |-> 0]

(***************************************************************************)
(* Tasks.  A url_to_file task is suspended in session.get ("fetching") or, *)
(* with the file open, in response.read / f.write ("reading"), or it is    *)
(* "done" as Task.done() has it: it has returned, raised or been           *)
(* cancelled.  A cancelled task that has its file open is "cancelling"     *)
(* until the CancelledError has unwound it.                                *)
(* A load_comments task is suspended in session.get ("fetching") or in the *)
(* exit of parse_comments_page's TaskGroup ("joining"); a task that has    *)
(* returned at line 161 or from its except clause is "skipped", one whose  *)
(* fetch raised past the except clause is "raised", not "done".  A         *)
(* TaskGroup learns of a task's exception as the task ends.                *)
(***************************************************************************)
Live == {"fetching", "reading", "joining", "cancelling"}

\* tg.create_task(self.url_to_file(url, path, default_name))
NewSave(url, default_name) ==
  [url |-> url, default_name |-> default_name, st |-> "fetching",
   filename |-> BaseName(url, default_name), headers |-> NoHeaders,
   full_path |-> NoPath]

\* tg.create_task(self.load_comments(news_id, path))
NewComments(news_id) ==
  [url |-> top_url \o "/item?id=" \o ToString(news_id), st |-> "fetching",
   links |-> <<>>, errors |-> FALSE]

\* Task.cancel() on a url_to_file task, as TaskGroup._abort calls it.  The
\* CancelledError ends a task that is suspended in session.get with no
\* effect, so the model ends it at once; a task that has its file open
\* is "cancelling" until it has unwound.
Cancel(t) ==
  IF t.st = "fetching" THEN [t EXCEPT !.st = "done"]
  ELSE IF t.st = "reading" THEN [t EXCEPT !.st = "cancelling"]
  ELSE t

\* Task.cancel() on a load_comments task: suspended in session.get it ends
\* at once; inside the exit of the inner TaskGroup it makes that group
\* cancel its own tasks and wait for them.
CancelComments(c) ==
  IF c.st = "fetching" THEN [c EXCEPT !.st = "done"]
  ELSE IF c.st = "joining"
    THEN [c EXCEPT !.st = "cancelling",
                   !.links = [j \in DOMAIN c.links |-> Cancel(c.links[j])]]
  ELSE c

\* TaskGroup._abort of parse_index_page's group
Abort(s) ==
  [i \in DOMAIN s |->
     [com |-> CancelComments(s[i].com), idx |-> Cancel(s[i].idx)]]

SaveDone(t) == t.st \notin Live
CommentsDone(c) ==
  c.st \notin Live /\ \A j \in DOMAIN c.links : SaveDone(c.links[j])

\* a wait for the load_comments tasks alone, as if the own-page saves were
\* started outside the TaskGroup
CommentsTasksDone(s) == \A i \in DOMAIN s : CommentsDone(s[i].com)

\* what the exit of parse_index_page's TaskGroup waits for
AllTasksDone(s) ==
  \A i \in DOMAIN s : CommentsDone(s[i].com) /\ SaveDone(s[i].idx)

\* slot 0 is the submission's own-page save, slot j its j-th comment link
Slots(s, i) == {0} \cup DOMAIN s[i].com.links
GetSave(s, i, slot) == IF slot = 0 THEN s[i].idx ELSE s[i].com.links[slot]
SetSave(s, i, slot, t) ==
  IF slot = 0 THEN [s EXCEPT ![i].idx = t]
  ELSE [s EXCEPT ![i].com.links[slot] = t]

\* The event loop resumes the tasks that TaskGroup._abort cancelled one
\* after the other; none of them can see how far another has unwound, so
\* the model takes them in the order of (news_id, slot), the url_to_file
\* tasks before the load_comments tasks.
CancellingSaves(s) ==
  {x \in (DOMAIN s) \X (0..MaxLinks) :
     x[2] \in Slots(s, x[1]) /\ GetSave(s, x[1], x[2]).st = "cancelling"}
NextCancelledSave(s, i, slot) ==
  \A x \in CancellingSaves(s) : i < x[1] \/ (i = x[1] /\ slot <= x[2])
NextCancelledComments(s, i) ==
  /\ CancellingSaves(s) = {}
  /\ \A j \in DOMAIN s : s[j].com.st = "cancelling" => i <= j

Init ==
  /\ pc = "index_fetch"
  /\ iteration = 1
  /\ index_result = Pending
  /\ recent_news = {}
  /\ cycle_seen = {}
  /\ html = <<>>
  /\ news_count = 0
  /\ cur = NoCur
  /\ dirs = {}
  /\ files = NoFiles
  /\ mkdir_calls = [i \in Ids |-> 0]
  /\ launches = [i \in Ids |-> 0]
  /\ subs = NoSubs
  /\ tg_errors = FALSE
  /\ interrupted = FALSE

(***************************************************************************)
(* The main coroutine.                                                     *)
(***************************************************************************)
\* An exception leaves a child of parse_index_page's TaskGroup
\* (TaskGroup._on_task_done): the group aborts, and cancels the parent
\* task, which is in the group's body only while it awaits mkdir.
OuterFailure(s) ==
  /\ subs' = Abort(s)
  /\ tg_errors' = TRUE
  /\ pc' = IF pc = "mkdir" THEN "mkdir_cancelled" ELSE pc

\* parse_index_page, lines 179-188, from the point where it asks get_news
\* for the next submission to its next await: the mkdir of a new
\* submission, or the exit of the TaskGroup.  An exception of the generator
\* leaves the body of the group, which aborts; the group's exit then waits
\* for its tasks and raises an ExceptionGroup.
parse_index_page(rows, cnt, seen, s) ==
  LET g == get_news(rows, cnt, seen) IN
  /\ html' = g.rows
  /\ news_count' = g.news_count
  /\ recent_news' = g.recent_news
  /\ IF g.kind = "yield"
       THEN /\ pc' = "mkdir"
            /\ cur' = [news_id |-> g.news_id, news_href |-> g.news_href]
            /\ subs' = s
            /\ tg_errors' = FALSE
       ELSE /\ pc' = "join"
            /\ cur' = NoCur
            /\ subs' = IF g.kind = "end" THEN s ELSE Abort(s)
            /\ tg_errors' = (g.kind # "end")

\* Crawler.iteration, lines 190-210, resumed by the answer to
\* session.get(self.top_url): r, and for a 200 the outcome of
\* response.text(): body, and the page it gives.
iteration_resume(r, body, page) ==
  /\ pc = "index_fetch"
  /\ r \in SessionGet(top_url) /\ r.headers = NoHeaders
  /\ (r.kind = "response" /\ r.status = 200) \/ body = "ok"
  /\ (r.kind = "response" /\ r.status = 200 /\ body = "ok") \/ page = <<>>
  /\ LET exc == IF r.kind = "raise" THEN r.exc
                ELSE IF body # "ok" THEN body ELSE ""
     IN
     /\ index_result' = Result(r.status, exc)
     /\ IF exc # ""
          THEN /\ pc' = IF exc \in CaughtExceptions THEN "sleep" ELSE "exit1"
               /\ UNCHANGED <<html, news_count, recent_news, cur, subs,
                              tg_errors>>
          ELSE IF r.status # 200
            THEN /\ pc' = "sleep"
                 /\ UNCHANGED <<html, news_count, recent_news, cur,
                                subs, tg_errors>>
            ELSE parse_index_page(page, 0, recent_news, subs)
  /\ UNCHANGED <<iteration, cycle_seen, dirs, files, mkdir_calls, launches,
                 interrupted>>

\* lines 184-188 run without the directory having been created
mkdir_skipped ==
  /\ pc = "mkdir"
  /\ mkdir_calls' = mkdir_calls
  /\ launches' = [launches EXCEPT ![cur.news_id] = @ + 1]
  /\ parse_index_page(html, news_count, recent_news,
       (cur.news_id :>
          [com |-> NewComments(cur.news_id),
           idx |-> NewSave(cur.news_href, "index")]) @@ subs)
  /\ UNCHANGED <<iteration, index_result, cycle_seen, files, interrupted,
                 dirs>>

\* parse_index_page resumed by aiofiles.os.mkdir(news_path): lines 184-188,
\* then on to the next submission.
mkdir ==
  /\ pc = "mkdir"
  /\ mkdir_calls' = [mkdir_calls EXCEPT ![cur.news_id] = @ + 1]
  /\ IF cur.news_id \in dirs
       THEN \* FileExistsError leaves the body of the TaskGroup
            /\ pc' = "join"
            /\ subs' = Abort(subs)
            /\ tg_errors' = TRUE
            /\ cur' = NoCur
            /\ UNCHANGED <<dirs, launches, html, news_count, recent_news>>
       ELSE /\ dirs' = dirs \cup {cur.news_id}
            /\ launches' = [launches EXCEPT ![cur.news_id] = @ + 1]
            /\ parse_index_page(html, news_count, recent_news,
                 (cur.news_id :>
                    [com |-> NewComments(cur.news_id),
                     idx |-> NewSave(cur.news_href, "index")]) @@ subs)
  /\ UNCHANGED <<iteration, index_result, cycle_seen, files, interrupted>>

\* The main task was cancelled while it awaited mkdir: CancelledError
\* leaves the body of the TaskGroup.  The mkdir itself runs in a worker
\* thread, which the cancellation does not stop once it has started.
mkdir_cancelled(created) ==
  /\ pc = "mkdir_cancelled"
  /\ pc' = "join"
  /\ cur' = NoCur
  /\ mkdir_calls' = [mkdir_calls EXCEPT ![cur.news_id] = @ + 1]
  /\ dirs' = IF created THEN dirs \cup {cur.news_id} ELSE dirs
  /\ UNCHANGED <<iteration, index_result, recent_news, cycle_seen, html,
                 news_count, files, launches, subs, tg_errors, interrupted>>

Unfinished(s) ==
  [i \in {j \in DOMAIN s :
            ~(CommentsDone(s[j].com) /\ SaveDone(s[j].idx))} |-> s[i]]

\* The exit of parse_index_page's TaskGroup (line 179) once its tasks are
\* done: an ExceptionGroup if a task or the body raised, which nothing up
\* to __main__ catches (exit code 1); else the CancelledError of an
\* interrupt, which asyncio.run turns into KeyboardInterrupt (exit code 0);
\* else iteration returns and crawl sleeps (line 221).
join ==
  /\ pc = "join"
  /\ AllTasksDone(subs)
  /\ pc' = IF tg_errors THEN "exit1" ELSE IF interrupted THEN "exit0"
           ELSE "sleep"
  /\ subs' = Unfinished(subs)
  /\ UNCHANGED <<iteration, index_result, recent_news, cycle_seen, html,
                 news_count, cur,
                 dirs, files, mkdir_calls, launches, tg_errors, interrupted>>

\* Crawler.crawl, lines 217-221: asyncio.sleep(self.delay) returns and the
\* loop starts the next iteration, up to its session.get.
crawl ==
  /\ pc = "sleep"
  /\ iteration < MaxCycles
  /\ iteration' = iteration + 1
  /\ pc' = "index_fetch"
  /\ index_result' = Pending
  /\ cycle_seen' = recent_news
  /\ html' = <<>>
  /\ news_count' = 0
  /\ UNCHANGED <<recent_news, cur, dirs, files, mkdir_calls,
                 launches, subs, tg_errors, interrupted>>

\* The interrupt key: asyncio.run cancels the main task.  Outside a
\* TaskGroup the CancelledError ends main at once; inside, the group
\* aborts and its exit waits for the tasks.  (__main__, lines 232-236.)
KeyboardInterrupt ==
  /\ pc \in {"index_fetch", "sleep", "mkdir", "mkdir_cancelled", "join"}
  /\ ~interrupted
  /\ interrupted' = TRUE
  /\ pc' = CASE pc \in {"index_fetch", "sleep"} -> "exit0"
             [] pc = "mkdir" -> "mkdir_cancelled"
             [] OTHER -> pc
  /\ subs' = Abort(subs)
  /\ UNCHANGED <<iteration, index_result, recent_news, cycle_seen, html,
                 news_count, cur, dirs, files, mkdir_calls, launches,
                 tg_errors>>

(***************************************************************************)
(* url_to_file, lines 101-133.                                             *)
(***************************************************************************)
\* aiofiles.open(full_path, "wb"): the file is created, or cut to nothing
Open(fs, path) ==
  (path :> [bytes |-> "empty",
            writes |-> IF path \in DOMAIN fs THEN fs[path].writes ELSE 0])
  @@ fs

\* f.write(await response.read())
Write(fs, path) ==
  [fs EXCEPT ![path] = [bytes |-> "full", writes |-> @.writes + 1]]

\* url_to_file with an except clause that also empties the target directory
url_to_file_cleanup(t, news_id, r, fs) ==
  IF r.kind = "raise"
    THEN [task |-> [t EXCEPT !.st = "done"],
          files |-> [p \in {q \in DOMAIN fs : q[1] # news_id} |-> fs[p]],
          raised |-> r.exc \notin CaughtExceptions]
  ELSE IF r.status = 200
    THEN LET ext == get_file_extension_from_response(r)
             filename == IF ext # None THEN t.filename \o ext ELSE t.filename
             full_path == <<news_id, filename>>
         IN [task |-> [t EXCEPT !.st = "reading", !.filename = filename,
                                !.headers = r.headers,
                                !.full_path = full_path],
             files |-> Open(fs, full_path), raised |-> FALSE]
  ELSE [task |-> [t EXCEPT !.st = "done"], files |-> fs, raised |-> FALSE]

\* url_to_file with the path of the first submission's directory
url_to_file_first_dir(t, news_id, r, fs) ==
  IF r.kind = "raise"
    THEN [task |-> [t EXCEPT !.st = "done"], files |-> fs,
          raised |-> r.exc \notin CaughtExceptions]
  ELSE IF r.status = 200
    THEN LET ext == get_file_extension_from_response(r)
             filename == IF ext # None THEN t.filename \o ext ELSE t.filename
             full_path == <<1, filename>>
         IN [task |-> [t EXCEPT !.st = "reading", !.filename = filename,
                                !.headers = r.headers,
                                !.full_path = full_path],
             files |-> Open(fs, full_path), raised |-> FALSE]
  ELSE [task |-> [t EXCEPT !.st = "done"], files |-> fs, raised |-> FALSE]

\* The task and the files after session.get(url) has answered r: lines
\* 115-121, up to the await inside aiofiles.open, and the except clause.
url_to_file(t, news_id, r, fs) ==
  IF r.kind = "raise"
    THEN [task |-> [t EXCEPT !.st = "done"], files |-> fs,
          raised |-> r.exc \notin CaughtExceptions]
  ELSE IF r.status = 200
    THEN LET ext == get_file_extension_from_response(r)
             filename == IF ext # None THEN t.filename \o ext ELSE t.filename
             full_path == <<news_id, filename>>
         IN [task |-> [t EXCEPT !.st = "reading", !.filename = filename,
                                !.headers = r.headers,
                                !.full_path = full_path],
             files |-> Open(fs, full_path), raised |-> FALSE]
  ELSE [task |-> [t EXCEPT !.st = "done"], files |-> fs, raised |-> FALSE]

\* The task and the files after response.read() has ended as body: line
\* 122 and the except clause.
url_to_file_write(t, body, fs) ==
  IF body = "ok"
    THEN [task |-> [t EXCEPT !.st = "done"], files |-> Write(fs, t.full_path),
          raised |-> FALSE]
    ELSE [task |-> [t EXCEPT !.st = "done"], files |-> fs,
          raised |-> body \notin CaughtExceptions]

\* An exception leaves a task of parse_comments_page's TaskGroup: the
\* group aborts.  (Its parent, load_comments, is already in the group's
\* exit: the body has no await.)
InnerFailure(c) ==
  [c EXCEPT !.errors = TRUE,
            !.links = [j \in DOMAIN c.links |-> Cancel(c.links[j])]]

\* what the end of a url_to_file task does to the tasks around it
SaveEnds(i, slot, t, raised) ==
  IF ~raised
    THEN /\ subs' = SetSave(subs, i, slot, t)
         /\ UNCHANGED <<pc, tg_errors>>
  ELSE IF slot = 0
    THEN OuterFailure(SetSave(subs, i, slot, t))
  ELSE /\ subs' = [SetSave(subs, i, slot, t) EXCEPT ![i].com = InnerFailure(@)]
       /\ UNCHANGED <<pc, tg_errors>>

url_to_file_response(i, slot, r) ==
  /\ i \in DOMAIN subs /\ slot \in Slots(subs, i)
  /\ GetSave(subs, i, slot).st = "fetching"
  /\ r \in SessionGet(GetSave(subs, i, slot).url)
  /\ LET u == url_to_file(GetSave(subs, i, slot), i, r, files) IN
       /\ files' = u.files
       /\ SaveEnds(i, slot, u.task, u.raised)
  /\ UNCHANGED <<iteration, index_result, recent_news, cycle_seen, html,
                 news_count, cur, dirs, mkdir_calls, launches, interrupted>>

url_to_file_body(i, slot, body) ==
  /\ i \in DOMAIN subs /\ slot \in Slots(subs, i)
  /\ GetSave(subs, i, slot).st = "reading"
  /\ LET u == url_to_file_write(GetSave(subs, i, slot), body, files) IN
       /\ files' = u.files
       /\ SaveEnds(i, slot, u.task, u.raised)
  /\ UNCHANGED <<iteration, index_result, recent_news, cycle_seen, html,
                 news_count, cur, dirs, mkdir_calls, launches, interrupted>>

\* CancelledError unwinds a url_to_file task.  A write that a worker
\* thread has already begun is not stopped by it (written).
url_to_file_cancelled(i, slot, written) ==
  /\ i \in DOMAIN subs /\ slot \in Slots(subs, i)
  /\ GetSave(subs, i, slot).st = "cancelling"
  /\ NextCancelledSave(subs, i, slot)
  /\ written => GetSave(subs, i, slot).full_path # NoPath
  /\ files' = IF written THEN Write(files, GetSave(subs, i, slot).full_path)
              ELSE files
  /\ subs' = SetSave(subs, i, slot,
                     [GetSave(subs, i, slot) EXCEPT !.st = "done"])
  /\ UNCHANGED <<pc, iteration, index_result, recent_news, cycle_seen, html,
                 news_count, cur, dirs, mkdir_calls, launches, tg_errors,
                 interrupted>>

(***************************************************************************)
(* load_comments, lines 150-172, and parse_comments_page, lines 135-148.   *)
(***************************************************************************)
\* parse_comments_page: one url_to_file task per anchor, in document order
parse_comments_page(page) ==
  [j \in DOMAIN page |-> NewSave(AbsoluteHref(page[j]), "")]

\* the load_comments task after session.get(url) has answered r and, for a
\* 200, response.text() has ended as body and given page
load_comments(c, r, body, page) ==
  IF r.kind = "raise"
    THEN [task |-> [c EXCEPT !.st = IF r.exc \in CaughtExceptions
                                      THEN "skipped" ELSE "raised"],
          raised |-> r.exc \notin CaughtExceptions]
  ELSE IF r.status # 200
    THEN [task |-> [c EXCEPT !.st = "skipped"], raised |-> FALSE]
  ELSE IF body # "ok"
    THEN [task |-> [c EXCEPT !.st = IF body \in CaughtExceptions
                                      THEN "skipped" ELSE "raised"],
          raised |-> body \notin CaughtExceptions]
  ELSE IF page = <<>>
    THEN [task |-> [c EXCEPT !.st = "done"], raised |-> FALSE]
  ELSE [task |-> [c EXCEPT !.st = "joining",
                           !.links = parse_comments_page(page)],
        raised |-> FALSE]

\* what the end of a step of a load_comments task does to the tasks around it
CommentsEnd(i, c, raised) ==
  IF raised
    THEN OuterFailure([subs EXCEPT ![i].com = c])
    ELSE /\ subs' = [subs EXCEPT ![i].com = c]
         /\ UNCHANGED <<pc, tg_errors>>

load_comments_response(i, r, body, page) ==
  /\ i \in DOMAIN subs
  /\ subs[i].com.st = "fetching"
  /\ r \in SessionGet(subs[i].com.url) /\ r.headers = NoHeaders
  /\ (r.kind = "response" /\ r.status = 200) \/ body = "ok"
  /\ (r.kind = "response" /\ r.status = 200 /\ body = "ok") \/ page = <<>>
  /\ LET u == load_comments(subs[i].com, r, body, page) IN
       CommentsEnd(i, u.task, u.raised)
  /\ UNCHANGED <<iteration, index_result, recent_news, cycle_seen, html,
                 news_count, cur, dirs, files, mkdir_calls, launches,
                 interrupted>>

\* The exit of parse_comments_page's TaskGroup once its tasks are done: an
\* ExceptionGroup if one of them raised, which load_comments does not
\* catch; else the CancelledError if load_comments was cancelled; else
\* load_comments returns.
load_comments_exit(i) ==
  /\ i \in DOMAIN subs
  /\ subs[i].com.st \in {"joining", "cancelling"}
  /\ \A j \in DOMAIN subs[i].com.links : SaveDone(subs[i].com.links[j])
  /\ subs[i].com.st = "cancelling" => NextCancelledComments(subs, i)
  /\ CommentsEnd(i, [subs[i].com EXCEPT !.st = "done"], subs[i].com.errors)
  /\ UNCHANGED <<iteration, index_result, recent_news, cycle_seen, html,
                 news_count, cur, dirs, files, mkdir_calls, launches,
                 interrupted>>

(***************************************************************************)
(* The program.                                                            *)
(***************************************************************************)
Bodies == {"ok"} \cup BodyExceptions
Urls == {"", top_url} \cup {AbsoluteHref(h) : h \in LinkHrefs \cup IndexHrefs}
Answers == UNION {SessionGet(url) : url \in Urls}

Next ==
  \/ \E r \in Answers, body \in Bodies, page \in IndexPages :
       iteration_resume(r, body, page)
  \/ mkdir
  \/ \E created \in BOOLEAN : mkdir_cancelled(created)
  \/ join
  \/ crawl
  \/ \E i \in Ids, slot \in 0..MaxLinks :
       \/ \E r \in Answers : url_to_file_response(i, slot, r)
       \/ \E body \in Bodies : url_to_file_body(i, slot, body)
       \/ \E written \in BOOLEAN : url_to_file_cancelled(i, slot, written)
  \/ \E i \in Ids :
       \/ \E r \in Answers, body \in Bodies,
             page \in CommentPages(i) :
            load_comments_response(i, r, body, page)
       \/ load_comments_exit(i)

\* the program while the interrupt key is not pressed
Spec == Init /\ [][Next]_vars

\* the program with the interrupt key
NextInterrupt == Next \/ KeyboardInterrupt
SpecInterrupt == Init /\ [][NextInterrupt]_vars

(***************************************************************************)
(* Properties.                                                             *)
(***************************************************************************)
IndexFile == "index.png"
HashA == Sha256Hex50("http://a.example/") \o ".png"
Full(path) == path \in DOMAIN files /\ files[path].bytes = "full"

\* a task that has not ended
Running(t) == t.st \in {"fetching", "reading", "joining", "cancelling"}
SomeTaskRuns ==
  \E i \in DOMAIN subs :
    \/ Running(subs[i].idx)
    \/ Running(subs[i].com)
    \/ \E j \in DOMAIN subs[i].com.links : Running(subs[i].com.links[j])

\* the rows that get_news has not taken, counted with their repetitions
RECURSIVE RowCount(_)
RowCount(rows) == IF rows = <<>> THEN 0 ELSE rows[1].rep + RowCount(Tail(rows))

\* C1: over any sequence of cycles and any pages, the two tasks of a
\* submission identifier are created at most once and its directory is
\* created at most once.
C1_LaunchedAtMostOnce ==
  \A i \in Ids : launches[i] <= 1 /\ mkdir_calls[i] <= 1

\* C1 witness: the second cycle has read a row of identifier 1, which the
\* first cycle had launched and whose own page it had not saved, and has
\* ended without launching it again.
C1_Witness ==
  /\ iteration = 2 /\ pc = "sleep"
  /\ index_result = Result(200, "") /\ news_count >= 1
  /\ cycle_seen = {1} /\ recent_news = {1}
  /\ launches[1] = 1 /\ mkdir_calls[1] = 1
  /\ <<1, IndexFile>> \notin DOMAIN files

\* C2: every step leaves in recent_news every identifier that was in it.
C2_SeenSetGrows == [][recent_news \subseteq recent_news']_vars

\* C2 witness: after a cycle that added two identifiers, a cycle whose
\* index fetch failed has ended, and both identifiers are still there.
C2_Witness ==
  /\ iteration = 2 /\ pc = "sleep"
  /\ index_result.status # 200
  /\ recent_news = {1, 2}

\* the identifiers of the well-formed rows of this cycle's page that were
\* not in recent_news when the cycle began: those get_news has yielded and
\* those of the rows it has not taken
NewRowIds ==
  ((recent_news \ cycle_seen)
     \cup {html[k].row.id : k \in {j \in DOMAIN html : html[j].row.ok}})
  \ cycle_seen

\* C3: when a cycle whose index fetch gave status 200 and a page of at most
\* news_limit rows has ended, the identifiers that it gave a directory,
\* added to recent_news and launched are exactly the row identifiers that
\* were not in recent_news when the cycle began.
C3_CycleProcessesNewIds ==
  (/\ pc \in {"sleep", "exit0", "exit1"}
   /\ index_result = Result(200, "")
   /\ news_count + RowCount(html) <= news_limit)
  => \A i \in Ids \ cycle_seen :
       i \in NewRowIds
         <=> (i \in dirs /\ i \in recent_news /\ launches[i] = 1)

\* C4: a step in which the index fetch of a cycle ends in another status
\* than 200 or in a failure creates no directory, leaves recent_news as it
\* was, launches no task, and takes crawl to its sleep.
C4_IndexFailureEndsCycle ==
  [][(/\ pc = "index_fetch"
      /\ index_result' # index_result
      /\ index_result' # Result(200, ""))
     => (/\ pc' = "sleep"
         /\ UNCHANGED <<dirs, recent_news, subs, mkdir_calls, launches>>)]_vars

\* C5: a step in which the comment-page fetch of a submission ends in
\* another status than 200 or in a failure starts no comment-link save and
\* leaves the submission's own-page save as it was, to run on.
C5_CommentFailureLeavesOwnPage ==
  [][\A i \in DOMAIN subs :
       (/\ i \in DOMAIN subs'
        /\ subs[i].com.st = "fetching"
        /\ subs'[i].com.st \in {"skipped", "raised"})
       => (/\ subs'[i].com.links = <<>>
           /\ subs'[i].idx = subs[i].idx)]_vars

\* C6: when the two saves of two identical links of one comment page have
\* ended, the file they share has been written at most once.
C6_IdenticalLinksOneWrite ==
  \A i \in DOMAIN subs :
    \A j, k \in DOMAIN subs[i].com.links :
      (/\ j < k
       /\ subs[i].com.links[j].url = subs[i].com.links[k].url
       /\ subs[i].com.links[j].st = "done"
       /\ subs[i].com.links[k].st = "done"
       /\ subs[i].com.links[j].full_path # NoPath)
      => files[subs[i].com.links[j].full_path].writes <= 1

\* the j-th comment-link save of submission i ends in this step
LinkSaveEnds(i, j) ==
  /\ i \in DOMAIN subs /\ i \in DOMAIN subs'
  /\ j \in DOMAIN subs[i].com.links /\ j \in DOMAIN subs'[i].com.links
  /\ Running(subs[i].com.links[j])
  /\ subs'[i].com.links[j].st = "done"

\* C7: a step that ends a comment-link save, as the failure of its fetch
\* does, changes neither the existence nor the content of any file but
\* the save's own, and leaves recent_news unchanged.
C7_FailedLinkSaveFrame ==
  [][\A i \in Ids, j \in 1..MaxLinks :
       LinkSaveEnds(i, j)
       => /\ recent_news' = recent_news
          /\ \A p \in (DOMAIN files \cup DOMAIN files') \
                        {subs[i].com.links[j].full_path} :
               /\ p \in DOMAIN files /\ p \in DOMAIN files'
               /\ files'[p] = files[p]]_vars

\* C7 witness: with no exception raised past an except clause, a
\* comment-link save of submission 1 has ended while reading the body and
\* has left its file empty; the index file of the same directory is there
\* with its content.
C7_Witness ==
  /\ 1 \in DOMAIN subs /\ ~tg_errors /\ ~subs[1].com.errors
  /\ \A j \in DOMAIN subs[1].com.links : ~Running(subs[1].com.links[j])
  /\ <<1, HashA>> \in DOMAIN files
  /\ files[<<1, HashA>>] = [bytes |-> "empty", writes |-> 0]
  /\ Full(<<1, IndexFile>>)

\* the save tasks of submission i that this step changes
ChangedSaves(i) ==
  {slot \in Slots(subs, i) :
     GetSave(subs', i, slot) # GetSave(subs, i, slot)}

\* C8: the step in which a comment-link save of a submission fails changes
\* no other save task of that submission.
C8_LinkFailureIsolated ==
  [][\A i \in DOMAIN subs :
       (/\ i \in DOMAIN subs'
        /\ ~subs[i].com.errors
        /\ subs'[i].com.errors)
       => Cardinality(ChangedSaves(i)) <= 1]_vars

\* C9: while crawl sleeps, starts an iteration or has left, no task that
\* an iteration launched is still running.
C9_CycleJoinsItsTasks ==
  pc \in {"sleep", "index_fetch", "exit0", "exit1"} => ~SomeTaskRuns

\* C9 witness: the first iteration has returned to crawl's sleep after the
\* own-page saves of two submissions and a comment-link save of the first
\* wrote their files.
C9_Witness ==
  /\ pc = "sleep" /\ iteration = 1
  /\ Full(<<1, IndexFile>>) /\ Full(<<2, IndexFile>>) /\ Full(<<1, HashA>>)

\* C10: as long as no exception is raised past an except clause, every
\* empty file is one that a running save has open: a save that has ended
\* without writing the body has left no file.
C10_FailedSaveWritesNoFile ==
  (~tg_errors /\ \A i \in DOMAIN subs : ~subs[i].com.errors)
  => \A p \in DOMAIN files :
       files[p].bytes = "empty"
       => \E i \in DOMAIN subs : \E slot \in Slots(subs, i) :
            /\ Running(GetSave(subs, i, slot))
            /\ GetSave(subs, i, slot).full_path = p

\* C11: while the interrupt key is not pressed the process does not
\* terminate, whatever the pages and the outcomes of the fetches are.
C11_NeverTerminates == pc # "exit1"

\* C12: the process has left only if the interrupt key was pressed, and
\* then with exit code 0.
C12_StopsOnInterruptOnly ==
  pc \in {"exit0", "exit1"} => (interrupted /\ pc = "exit0")

\* the extension that the table of mimetypes gives for the declared type
TableExtension(headers) ==
  CASE headers = NoHeaders -> ".html"
    [] headers = <<CtPng>> -> ".png"
    [] headers = <<CtUnknown>> -> ""

HashItem == "49f458663de4ab5e62648914c2c4e5a8d053389143e28d4609"

\* the name the claim gives to the file of a save of url
NameOf(url, default_name, headers) ==
  (IF default_name # "" THEN default_name
   ELSE IF url = "http://a.example/"
     THEN "217fbabc0e7aa17115435afd966b734a76c85b9b14136b967b"
   ELSE HashItem)
  \o TableExtension(headers)

\* C13: every save that got status 200 has opened, and writes, the file
\* whose name is the fixed name, or else the first 50 hex digits of the
\* hash of the URL, followed by the extension of the declared content type
\* (parameters ignored, text/html when there is no header, nothing when
\* the type is not known).
C13_FileNameFromContentType ==
  \A i \in DOMAIN subs : \A slot \in Slots(subs, i) :
    LET t == GetSave(subs, i, slot) IN
    t.full_path # NoPath
    => /\ t.full_path[2] = NameOf(t.url, t.default_name, t.headers)
       /\ t.full_path \in DOMAIN files

\* C13 witness: the own page of submission 1, declared "image/png; q=1",
\* is written as index.png, and a comment link of it, declared with an
\* unknown type, is written under the bare hash of its URL.
C13_Witness ==
  /\ Full(<<1, IndexFile>>)
  /\ Full(<<1, HashItem>>)

\* C14: when get_news has come to a row beyond the first news_limit rows
\* of a page, the cycle goes on to its end without an exception: no task
\* of the earlier rows is cancelled and the process does not leave.
C14_LimitStopsQuietly ==
  news_count > news_limit => (~tg_errors /\ pc # "exit1")

\* C15: a step in which get_news takes a row whose id is not an integer
\* raises nothing: the other rows of the page are still processed.
C15_MalformedRowSkipped ==
  [][(/\ pc = "mkdir"
      /\ html # <<>>
      /\ ~html[1].row.ok
      /\ html' # html)
     => (~tg_errors' /\ pc' # "exit1")]_vars

\* C16: no fetch is issued for the empty href of a row without a title
\* anchor: no url_to_file task is ever suspended in session.get("").
C16_EmptyHrefNotFetched ==
  \A i \in DOMAIN subs :
    ~(subs[i].idx.url = "" /\ subs[i].idx.st = "fetching")

\* the submissions of which this step changes a task
ChangedSubs == {i \in DOMAIN subs \cap DOMAIN subs' : subs'[i] # subs[i]}

\* C17: a step in which a task of one submission ends in an exception
\* changes no task of another submission and does not cancel
\* parse_index_page.
C17_SubmissionFailureIsolated ==
  [][(/\ ~tg_errors /\ tg_errors'
      /\ UNCHANGED <<html, news_count, index_result, mkdir_calls>>)
     => (Cardinality(ChangedSubs) <= 1 /\ pc' = pc)]_vars

\* C18: an identifier is in recent_news before its directory is created,
\* and its directory exists before its two tasks are created and before
\* any file is written into it.
C18_DirectoryBeforeTasks ==
  /\ dirs \subseteq recent_news
  /\ DOMAIN subs \subseteq dirs
  /\ \A i \in Ids : launches[i] > 0 => i \in dirs
  /\ \A p \in DOMAIN files : p[1] \in dirs
  /\ pc \in {"mkdir", "mkdir_cancelled"}
     => (cur.news_id \in recent_news /\ cur.news_id \notin DOMAIN subs)

\* C18 witness: the directory of submission 2 is being created, and is
\* not there yet, while the own-page save of submission 1 has its file
\* open in directory 1.
C18_Witness ==
  /\ pc = "mkdir" /\ cur.news_id = 2 /\ 2 \notin dirs
  /\ 1 \in DOMAIN subs /\ subs[1].idx.st = "reading"
  /\ <<1, IndexFile>> \in DOMAIN files

\* C19: every file that a step creates or changes is the file of a save
\* task that took the step, and lies in the directory of that task's
\* submission; no step removes a file.
C19_WritesStayInOwnDirectory ==
  [][/\ DOMAIN files \subseteq DOMAIN files'
     /\ \A p \in DOMAIN files' :
          (p \notin DOMAIN files \/ files'[p] # files[p])
          => /\ p[1] \in DOMAIN subs /\ p[1] \in DOMAIN subs'
             /\ \E slot \in Slots(subs, p[1]) :
                  /\ GetSave(subs', p[1], slot) # GetSave(subs, p[1], slot)
                  /\ GetSave(subs', p[1], slot).full_path = p]_vars

\* C19 witness: the same URL is linked from the comment threads of the two
\* submissions of one cycle, and each directory has its own file of it.
C19_Witness ==
  /\ iteration = 1
  /\ Full(<<1, HashA>>) /\ Full(<<2, HashA>>)

====
